---- MODULE Spec2Model ----
(***************************************************************************)
(* BcmPortGroup (fboss/agent/hw/bcm/BcmPortGroup.cpp): lane-mode           *)
(* resolution for a four-lane port group and the flex-port                 *)
(* reconfiguration sequence.                                               *)
(*                                                                         *)
(* The port collaborator (BcmPort::disable/enable/supportsSpeed/           *)
(* maxLaneSpeed), the register accessors (retrieveActiveLanes,             *)
(* setActiveLanes) and the cfg::PortSpeed / LaneMode enumerations are      *)
(* declared outside BcmPortGroup.cpp; they are modelled from the design    *)
(* document.                                                               *)
(***************************************************************************)
EXTENDS Integers, Sequences, FiniteSets

VARIABLES
  laneMode,     \* laneMode_ : the recorded active lane mode
  hwLanes,      \* the opennslPortControlLanes register of the controlling port
  portEnabled,  \* per lane: is the BcmPort currently enabled in hardware
  state,        \* the SwitchState snapshot: per lane [speed, disabled]
  pc,           \* position inside reconfigure(): idle/disable/setActiveLanes/enable
  idx,          \* loop index of the disable / enable loops
  newLaneMode,  \* argument newLaneMode of reconfigure()
  op,           \* the operation that ran last (or is running)
  raised,       \* the exception that left the last operation ("none" if none)
  ret,          \* return value of the last operation
  calls,        \* hardware calls made by the running / last operation, in order
  prev,         \* outcome of the directly preceding reconfigureIfNeeded call
  controllingPort, \* controllingPort_->getBcmPortId()
  allPorts,     \* allPorts_ : the hardware port ids of the members, in order
  fnArgs,       \* arguments of the pure function under evaluation
  fnResult      \* its result

vars == <<laneMode, hwLanes, portEnabled, state, pc, idx, newLaneMode,
          op, raised, ret, calls, prev,
          controllingPort, allPorts, fnArgs, fnResult>>

\* what no operation of a constructed group changes
fixed == <<controllingPort, allPorts, fnArgs, fnResult>>

----------------------------------------------------------------------------
(* Enumerations *)

\* BcmPortGroup::LaneMode, ordered SINGLE < DUAL < QUAD (number of active ports)
SINGLE == 1
DUAL == 2
QUAD == 4
LaneModes == {SINGLE, DUAL, QUAD}

\* cfg::PortSpeed (Mbps); DEFAULT is the unspecified sentinel
DEFAULT == 0
XG == 10000
TWENTYG == 20000
FORTYG == 40000
HUNDREDG == 100000

\* allPorts_.size() must be 4
NumLanes == 4
Lanes == 0..(NumLanes - 1)

----------------------------------------------------------------------------
(* Bounds of the model *)

\* how many of the speeds of PortSpeedOrder a snapshot of Spec may use
NumSpeeds == 3

PortSpeedOrder == <<XG, TWENTYG, FORTYG, DEFAULT, HUNDREDG>>

Min(a, b) == IF a < b THEN a ELSE b

\* speeds appearing in the evolving snapshot of Spec
Speeds == {PortSpeedOrder[i] : i \in 1..Min(NumSpeeds, Len(PortSpeedOrder))}

\* speeds appearing in the snapshots of SpecSnapshot
AllSpeeds == {PortSpeedOrder[i] : i \in 1..Len(PortSpeedOrder)}

----------------------------------------------------------------------------
(* Results of functions that may throw *)

Ok(m) == [err |-> "none", mode |-> m]
Throw(e) == [err |-> e, mode |-> 0]

ResolutionErrors ==
  {"SpeedUnsupported", "SpeedDefault", "LaneCapacity", "LanePlacement"}

----------------------------------------------------------------------------
(* External collaborators *)

\* controllingPort_->maxLaneSpeed()
maxLaneSpeed == XG

\* highest speed the port at a lane supports: the controlling port can
\* take all four lanes
PortMaxSpeed(lane) == IF lane = 0 THEN HUNDREDG ELSE FORTYG

\* bcmPort->supportsSpeed(speed)
supportsSpeed(lane, speed) == speed <= PortMaxSpeed(lane)

\* value written to / read from the lane-control register for a lane mode
LanesForMode(mode) ==
  CASE mode = QUAD -> 1
    [] mode = DUAL -> 2
    [] mode = SINGLE -> 4

----------------------------------------------------------------------------
(* Pure functions of BcmPortGroup.cpp *)

\* mutant: a speed below one lane's capacity is refused
neededLaneModeForSpeed_exact(speed, maxSpeed) ==
  IF speed = DEFAULT
    THEN Throw("SpeedDefault")
    ELSE LET neededLanes == speed \div maxSpeed IN
         IF neededLanes = 1 THEN Ok(QUAD)
         ELSE IF neededLanes = 2 THEN Ok(DUAL)
         ELSE IF neededLanes > 2 /\ neededLanes <= 4 THEN Ok(SINGLE)
         ELSE Throw("LaneCapacity")

neededLaneModeForSpeed(speed, maxSpeed) ==
  IF speed = DEFAULT
    THEN Throw("SpeedDefault")
    \* PortSpeed values are non-negative and below 2^31: the casts to
    \* uint32_t keep them, and the division is the unsigned one
    ELSE LET neededLanes == speed \div maxSpeed IN
         IF neededLanes <= 1 THEN Ok(QUAD)
         ELSE IF neededLanes = 2 THEN Ok(DUAL)
         ELSE IF neededLanes > 2 /\ neededLanes <= 4 THEN Ok(SINGLE)
         ELSE Throw("LaneCapacity")

\* the lane check for SINGLE/DUAL modes inside the loop
LaneAllowed_singleAnywhere(desiredMode, lane) ==
  IF desiredMode = DUAL THEN lane = 0 \/ lane = 2 ELSE TRUE

LaneAllowed(desiredMode, lane) ==
  IF desiredMode = SINGLE THEN lane = 0
  ELSE IF desiredMode = DUAL THEN lane = 0 \/ lane = 2
  ELSE TRUE

\* mutant: the mode of the last enabled port is taken
RECURSIVE calculateFrom_lastWins(_, _, _, _)
calculateFrom_lastWins(ports, maxSpeed, lane, desiredMode) ==
  IF lane >= NumLanes
    THEN Ok(desiredMode)
    ELSE LET port == ports[lane] IN
      IF port.disabled
        THEN calculateFrom_lastWins(ports, maxSpeed, lane + 1, desiredMode)
        ELSE LET neededMode == neededLaneModeForSpeed(port.speed, maxSpeed) IN
          IF neededMode.err # "none"
            THEN neededMode
            ELSE IF ~LaneAllowed(neededMode.mode, lane)
              THEN Throw("LanePlacement")
              ELSE calculateFrom_lastWins(ports, maxSpeed, lane + 1, neededMode.mode)

\* mutant: the mode ordering is inverted (the least demanding mode wins)
RECURSIVE calculateFrom_inverted(_, _, _, _)
calculateFrom_inverted(ports, maxSpeed, lane, desiredMode) ==
  IF lane >= NumLanes
    THEN Ok(desiredMode)
    ELSE LET port == ports[lane] IN
      IF port.disabled
        THEN calculateFrom_inverted(ports, maxSpeed, lane + 1, desiredMode)
        ELSE LET neededMode == neededLaneModeForSpeed(port.speed, maxSpeed) IN
          IF neededMode.err # "none"
            THEN neededMode
            ELSE LET d == IF neededMode.mode > desiredMode
                            THEN neededMode.mode ELSE desiredMode IN
              IF ~LaneAllowed(d, lane)
                THEN Throw("LanePlacement")
                ELSE calculateFrom_inverted(ports, maxSpeed, lane + 1, d)

RECURSIVE calculateFrom(_, _, _, _)
calculateFrom(ports, maxSpeed, lane, desiredMode) ==
  IF lane >= NumLanes
    THEN Ok(desiredMode)
    ELSE LET port == ports[lane] IN
      IF port.disabled
        THEN calculateFrom(ports, maxSpeed, lane + 1, desiredMode)
        ELSE LET neededMode == neededLaneModeForSpeed(port.speed, maxSpeed) IN
          IF neededMode.err # "none"
            THEN neededMode
            ELSE LET d == IF neededMode.mode < desiredMode
                            THEN neededMode.mode ELSE desiredMode IN
              IF ~LaneAllowed(d, lane)
                THEN Throw("LanePlacement")
                ELSE calculateFrom(ports, maxSpeed, lane + 1, d)

calculateDesiredLaneMode_inverted(ports, maxSpeed) ==
  calculateFrom_inverted(ports, maxSpeed, 0, SINGLE)

\* mutant: disabled ports take part in the computation
calculateDesiredLaneMode_allPorts(ports, maxSpeed) ==
  calculateFrom([l \in Lanes |-> [ports[l] EXCEPT !.disabled = FALSE]],
                maxSpeed, 0, QUAD)

calculateDesiredLaneMode(ports, maxSpeed) ==
  calculateFrom(ports, maxSpeed, 0, QUAD)

\* mutant: the speed of a disabled port is not checked
getDesiredLaneMode_enabledOnly(s) ==
  IF \E lane \in Lanes : ~s[lane].disabled /\ ~supportsSpeed(lane, s[lane].speed)
    THEN Throw("SpeedUnsupported")
    ELSE calculateDesiredLaneMode(s, maxLaneSpeed)

getDesiredLaneMode(s) ==
  IF \E lane \in Lanes : ~supportsSpeed(lane, s[lane].speed)
    THEN Throw("SpeedUnsupported")
    ELSE calculateDesiredLaneMode(s, maxLaneSpeed)

\* constructor: switch (activeLanes)
LaneModeFromActiveLanes_swapped(activeLanes) ==
  CASE activeLanes = 1 -> Ok(QUAD)
    [] activeLanes = 2 -> Ok(SINGLE)
    [] activeLanes = 4 -> Ok(DUAL)
    [] OTHER -> Throw("Construction")

\* mutant: an unexpected lane count is taken for QUAD instead of throwing
LaneModeFromActiveLanes_lenient(activeLanes) ==
  CASE activeLanes = 2 -> Ok(DUAL)
    [] activeLanes = 4 -> Ok(SINGLE)
    [] OTHER -> Ok(QUAD)

LaneModeFromActiveLanes(activeLanes) ==
  CASE activeLanes = 1 -> Ok(QUAD)
    [] activeLanes = 2 -> Ok(DUAL)
    [] activeLanes = 4 -> Ok(SINGLE)
    [] OTHER -> Throw("Construction")

\* if (desiredLaneMode != laneMode_)
NeedsReconfigure_always(desiredLaneMode, current) == TRUE
NeedsReconfigure_notQuad(desiredLaneMode, current) == desiredLaneMode # QUAD
NeedsReconfigure_less(desiredLaneMode, current) == desiredLaneMode < current

NeedsReconfigure(desiredLaneMode, current) == desiredLaneMode # current

\* catch (const std::exception& ex): every FbossError is a std::exception
CaughtByValid_placementOnly(err) == err = "LanePlacement"

CaughtByValid(err) == err \in ResolutionErrors

----------------------------------------------------------------------------
(* State *)

PortConfigs(S) == [speed : S, disabled : BOOLEAN]
Snapshots(S) == [Lanes -> PortConfigs(S)]

NoCall == [raised |-> "nocall", calls |-> <<>>]

NoArgs == [speed |-> DEFAULT, maxLaneSpeed |-> maxLaneSpeed, lane |-> 0]
NoResult == [needed |-> Throw("notEvaluated"), resolved |-> Throw("notEvaluated")]

Call(fn, arg, ok) == [fn |-> fn, arg |-> arg, ok |-> ok]

\* a group exists only if the constructor did not throw
InitGroup ==
  /\ hwLanes \in {1, 2, 4}
  /\ LaneModeFromActiveLanes(hwLanes).err = "none"
  /\ laneMode = LaneModeFromActiveLanes(hwLanes).mode
  /\ pc = "idle"
  /\ idx = 0
  /\ newLaneMode = laneMode
  /\ op = "construct"
  /\ raised = "none"
  /\ ret = "void"
  /\ calls = <<>>
  /\ prev = NoCall
  /\ controllingPort = 1
  /\ allPorts = [i \in 1..NumLanes |-> controllingPort + (i - 1)]
  /\ fnArgs = NoArgs
  /\ fnResult = NoResult

Init ==
  /\ InitGroup
  /\ portEnabled \in [Lanes -> BOOLEAN]
  /\ state = [l \in Lanes |-> [speed |-> XG, disabled |-> TRUE]]

InitSnapshot ==
  /\ InitGroup
  /\ portEnabled \in {[l \in Lanes |-> FALSE], [l \in Lanes |-> TRUE]}
  /\ state \in Snapshots(AllSpeeds)

----------------------------------------------------------------------------
(* Operations *)

\* the switch-state store publishes a snapshot with one port changed
UpdatePort ==
  /\ pc = "idle"
  /\ \E lane \in Lanes, cfg \in PortConfigs(Speeds) :
       /\ cfg # state[lane]
       /\ state' = [state EXCEPT ![lane] = cfg]
  /\ op' = "updatePort"
  /\ raised' = "none"
  /\ ret' = "void"
  /\ calls' = <<>>
  /\ prev' = NoCall
  /\ UNCHANGED <<laneMode, hwLanes, portEnabled, pc, idx, newLaneMode, fixed>>

\* mutant: the resolved mode is recorded by the check
validConfiguration_applies ==
  /\ pc = "idle"
  /\ op' = "validConfiguration"
  /\ calls' = <<>>
  /\ prev' = NoCall
  /\ LET r == getDesiredLaneMode(state) IN
       IF r.err = "none"
         THEN ret' = "true" /\ raised' = "none" /\ laneMode' = r.mode
         ELSE ret' = "false" /\ raised' = "none" /\ laneMode' = laneMode
  /\ UNCHANGED <<hwLanes, portEnabled, state, pc, idx, newLaneMode, fixed>>

validConfiguration ==
  /\ pc = "idle"
  /\ op' = "validConfiguration"
  /\ calls' = <<>>
  /\ prev' = NoCall
  /\ LET r == getDesiredLaneMode(state) IN
       IF r.err = "none"
         THEN ret' = "true" /\ raised' = "none"
         ELSE IF CaughtByValid(r.err)
           THEN ret' = "false" /\ raised' = "none"
           ELSE ret' = "void" /\ raised' = r.err
  /\ UNCHANGED <<laneMode, hwLanes, portEnabled, state, pc, idx, newLaneMode, fixed>>

\* mutant: a resolution error is swallowed and the group falls back to QUAD
reconfigureIfNeeded_swallow ==
  /\ pc = "idle"
  /\ op' = "reconfigureIfNeeded"
  /\ calls' = <<>>
  /\ ret' = "void"
  /\ prev' = IF op = "reconfigureIfNeeded"
               THEN [raised |-> raised, calls |-> calls] ELSE NoCall
  /\ LET r == getDesiredLaneMode(state)
         desiredLaneMode == IF r.err = "none" THEN r.mode ELSE QUAD IN
       /\ raised' = r.err
       /\ IF NeedsReconfigure(desiredLaneMode, laneMode)
            THEN pc' = "disable" /\ idx' = 0 /\ newLaneMode' = desiredLaneMode
            ELSE UNCHANGED <<pc, idx, newLaneMode>>
  /\ UNCHANGED <<laneMode, hwLanes, portEnabled, state, fixed>>

\* reconfigureIfNeeded up to the call of reconfigure()
reconfigureIfNeeded ==
  /\ pc = "idle"
  /\ op' = "reconfigureIfNeeded"
  /\ calls' = <<>>
  /\ ret' = "void"
  /\ prev' = IF op = "reconfigureIfNeeded"
               THEN [raised |-> raised, calls |-> calls] ELSE NoCall
  /\ LET r == getDesiredLaneMode(state) IN
       IF r.err # "none"
         THEN /\ raised' = r.err
              /\ UNCHANGED <<pc, idx, newLaneMode>>
         ELSE /\ raised' = "none"
              /\ IF NeedsReconfigure(r.mode, laneMode)
                   THEN pc' = "disable" /\ idx' = 0 /\ newLaneMode' = r.mode
                   ELSE UNCHANGED <<pc, idx, newLaneMode>>
  /\ UNCHANGED <<laneMode, hwLanes, portEnabled, state, fixed>>

\* mutant: the failed step is tried again
HardwareError_retry(fn, arg) ==
  /\ calls' = Append(calls, Call(fn, arg, FALSE))
  /\ UNCHANGED <<laneMode, hwLanes, portEnabled, state, pc, idx, newLaneMode,
                 op, raised, ret, prev, fixed>>

\* a hardware step threw: the exception leaves reconfigureIfNeeded
HardwareError(fn, arg) ==
  /\ calls' = Append(calls, Call(fn, arg, FALSE))
  /\ raised' = "Hardware"
  /\ pc' = "idle"
  /\ idx' = 0
  /\ UNCHANGED <<laneMode, hwLanes, portEnabled, state, newLaneMode, op, ret, prev, fixed>>

\* mutant: only the ports that end up disabled are quiesced
disable_onlyTargets ==
  /\ pc = "disable"
  /\ IF state[idx].disabled
       THEN /\ calls' = Append(calls, Call("disable", idx, TRUE))
            /\ portEnabled' = [portEnabled EXCEPT ![idx] = FALSE]
       ELSE UNCHANGED <<calls, portEnabled>>
  /\ IF idx + 1 < NumLanes
       THEN idx' = idx + 1 /\ pc' = pc
       ELSE idx' = 0 /\ pc' = "setActiveLanes"
  /\ UNCHANGED <<laneMode, hwLanes, state, newLaneMode, op, raised, ret, prev, fixed>>

\* 1. disable all group members: one iteration of the loop
disable ==
  /\ pc = "disable"
  /\ \/ /\ calls' = Append(calls, Call("disable", idx, TRUE))
        /\ portEnabled' = [portEnabled EXCEPT ![idx] = FALSE]
        /\ IF idx + 1 < NumLanes
             THEN idx' = idx + 1 /\ pc' = pc
             ELSE idx' = 0 /\ pc' = "setActiveLanes"
        /\ UNCHANGED <<laneMode, hwLanes, state, newLaneMode, op, raised, ret, prev, fixed>>
     \/ HardwareError("disable", idx)

\* 3. setActiveLanes(newLaneMode): register write, then laneMode_ is updated
setActiveLanes ==
  /\ pc = "setActiveLanes"
  /\ \/ /\ calls' = Append(calls, Call("setActiveLanes", newLaneMode, TRUE))
        /\ hwLanes' = LanesForMode(newLaneMode)
        /\ laneMode' = newLaneMode
        /\ pc' = "enable"
        /\ idx' = 0
        /\ UNCHANGED <<portEnabled, state, newLaneMode, op, raised, ret, prev, fixed>>
     \/ HardwareError("setActiveLanes", newLaneMode)

\* mutant: every member is enabled again
enable_all ==
  /\ pc = "enable"
  /\ calls' = Append(calls, Call("enable", idx, TRUE))
  /\ portEnabled' = [portEnabled EXCEPT ![idx] = TRUE]
  /\ IF idx + 1 < NumLanes
       THEN idx' = idx + 1 /\ pc' = pc
       ELSE idx' = 0 /\ pc' = "idle"
  /\ UNCHANGED <<laneMode, hwLanes, state, newLaneMode, op, raised, ret, prev, fixed>>

\* 4. enable ports: one iteration of the loop
enable ==
  /\ pc = "enable"
  /\ \/ /\ IF ~state[idx].disabled
             THEN /\ calls' = Append(calls, Call("enable", idx, TRUE))
                  /\ portEnabled' = [portEnabled EXCEPT ![idx] = TRUE]
             ELSE UNCHANGED <<calls, portEnabled>>
        /\ IF idx + 1 < NumLanes
             THEN idx' = idx + 1 /\ pc' = pc
             ELSE idx' = 0 /\ pc' = "idle"
        /\ UNCHANGED <<laneMode, hwLanes, state, newLaneMode, op, raised, ret, prev, fixed>>
     \/ /\ ~state[idx].disabled
        /\ HardwareError("enable", idx)

Next ==
  \/ UpdatePort
  \/ validConfiguration
  \/ reconfigureIfNeeded
  \/ disable
  \/ setActiveLanes
  \/ enable

Spec == Init /\ [][Next]_vars

NextSnapshot ==
  \/ validConfiguration
  \/ reconfigureIfNeeded
  \/ disable
  \/ setActiveLanes
  \/ enable

SpecSnapshot == InitSnapshot /\ [][NextSnapshot]_vars

----------------------------------------------------------------------------
(* Construction *)

\* lengths of the member lists handed to the constructor: NumLanes - 1 .. MaxPorts
MaxPorts == 5

\* values the lane-control register may report at construction: 0 .. MaxActiveLanes
MaxActiveLanes == 5

\* offsets of the candidate member ids from the controlling port's id
IdOffsets == {0, 1, 2, 3, 4, 257, -255}

\* uint8_t getLane(): the id difference converted to uint8_t
getLane(ctrl, portId) == (portId - ctrl) % 256

\* the constructor: member count, lane order, then the active-lane switch
construct(ctrl, ports, activeLanes) ==
  IF Len(ports) # NumLanes
    THEN Throw("MemberCount")
    ELSE IF \E i \in 0..(Len(ports) - 1) : getLane(ctrl, ports[i + 1]) # i
      THEN Throw("LaneOrder")
      ELSE LaneModeFromActiveLanes(activeLanes)

\* the state before the constructor runs: its arguments and the register
InitConstruct ==
  /\ controllingPort = 256
  /\ \E n \in (NumLanes - 1)..MaxPorts :
       allPorts \in [1..n -> {controllingPort + d : d \in IdOffsets}]
  /\ hwLanes \in 0..MaxActiveLanes
  /\ laneMode = 0
  /\ newLaneMode = 0
  /\ portEnabled = [l \in Lanes |-> FALSE]
  /\ state = [l \in Lanes |-> [speed |-> XG, disabled |-> TRUE]]
  /\ pc = "new"
  /\ idx = 0
  /\ op = "none"
  /\ raised = "none"
  /\ ret = "void"
  /\ calls = <<>>
  /\ prev = NoCall
  /\ fnArgs = NoArgs
  /\ fnResult = NoResult

\* BcmPortGroup::BcmPortGroup: on a throw no group exists
Construct ==
  /\ pc = "new"
  /\ op' = "construct"
  /\ LET r == construct(controllingPort, allPorts, hwLanes) IN
       IF r.err = "none"
         THEN /\ laneMode' = r.mode
              /\ newLaneMode' = r.mode
              /\ raised' = "none"
              /\ pc' = "idle"
         ELSE /\ raised' = r.err
              /\ pc' = "failed"
              /\ UNCHANGED <<laneMode, newLaneMode>>
  /\ UNCHANGED <<hwLanes, portEnabled, state, idx, ret, calls, prev, fixed>>

NextConstruct == Construct

SpecConstruct == InitConstruct /\ [][NextConstruct]_vars

----------------------------------------------------------------------------
(* Evaluation of the pure functions on their own *)

\* speeds 0 .. MaxSpeedArg and lane speeds 1 .. MaxLaneSpeedArg (in one unit)
MaxSpeedArg == 30
MaxLaneSpeedArg == 5

\* a group in which only the port at `lane` is enabled, at `speed`
OnePort(lane, speed) ==
  [l \in Lanes |-> [speed |-> speed, disabled |-> l # lane]]

InitNeeded ==
  /\ InitGroup
  /\ hwLanes = 1
  /\ portEnabled = [l \in Lanes |-> FALSE]
  /\ state = [l \in Lanes |-> [speed |-> XG, disabled |-> TRUE]]

\* the caller picks the arguments
ChooseArgs ==
  /\ pc = "idle"
  /\ fnArgs' \in [speed : 0..MaxSpeedArg, maxLaneSpeed : 1..MaxLaneSpeedArg,
                  lane : Lanes]
  /\ fnResult' = NoResult
  /\ UNCHANGED <<laneMode, hwLanes, portEnabled, state, pc, idx, newLaneMode,
                 op, raised, ret, calls, prev, controllingPort, allPorts>>

\* neededLaneModeForSpeed(speed, maxLaneSpeed), and calculateDesiredLaneMode
\* over a group whose only enabled port has that speed
EvalNeeded ==
  /\ pc = "idle"
  /\ fnResult = NoResult
  /\ fnResult' =
       [needed |-> neededLaneModeForSpeed(fnArgs.speed, fnArgs.maxLaneSpeed),
        resolved |-> calculateDesiredLaneMode(OnePort(fnArgs.lane, fnArgs.speed),
                                              fnArgs.maxLaneSpeed)]
  /\ UNCHANGED <<laneMode, hwLanes, portEnabled, state, pc, idx, newLaneMode,
                 op, raised, ret, calls, prev, controllingPort, allPorts, fnArgs>>

NextNeeded == ChooseArgs \/ EvalNeeded

SpecNeeded == InitNeeded /\ [][NextNeeded]_vars

----------------------------------------------------------------------------
(* Helpers of the properties *)

Enabled(s) == {l \in Lanes : ~s[l].disabled}

CallsOf(log, fn) == {k \in 1..Len(log) : log[k].fn = fn}

\* lane-count writes that succeeded
Writes(log) == Cardinality({k \in CallsOf(log, "setActiveLanes") : log[k].ok})

\* a reconfigureIfNeeded call has returned (normally or by an exception)
Returned == pc = "idle" /\ op = "reconfigureIfNeeded"

\* the register value the design assigns to a lane mode
RegisterHolds(mode) ==
  \/ mode = QUAD /\ hwLanes = 1
  \/ mode = DUAL /\ hwLanes = 2
  \/ mode = SINGLE /\ hwLanes = 4

----------------------------------------------------------------------------
(* C1: in a reconfiguration, every lane-count write is preceded by a disable
   call on each of the four members and by no enable call, every enable call
   is preceded by the lane-count write, and when the write is made no member
   of the group is enabled. *)
C1_QuiesceBeforeLaneWrite ==
  /\ \A k \in CallsOf(calls, "setActiveLanes") :
       /\ \A l \in Lanes : \E j \in 1..(k - 1) : calls[j] = Call("disable", l, TRUE)
       /\ \A j \in 1..(k - 1) : calls[j].fn # "enable"
  /\ \A k \in CallsOf(calls, "enable") :
       \E j \in 1..(k - 1) : calls[j] = Call("setActiveLanes", newLaneMode, TRUE)
  /\ pc = "setActiveLanes" => \A l \in Lanes : ~portEnabled[l]
  /\ calls # <<>> => op = "reconfigureIfNeeded"

\* a full reconfiguration of a group whose members were all enabled before
C1_Witness ==
  /\ Returned /\ raised = "none"
  /\ Writes(calls) = 1
  /\ Enabled(state) = {0, 2}
  /\ portEnabled = [l \in Lanes |-> l \in {0, 2}]

(* C2: after a reconfiguration that completes without error, a member is
   enabled iff the snapshot of the call enables it, and enable was called for
   exactly those members, once each. *)
C2_EnabledIffSnapshot ==
  (Returned /\ raised = "none" /\ calls # <<>>) =>
    /\ \A l \in Lanes : portEnabled[l] = ~state[l].disabled
    /\ {calls[k].arg : k \in CallsOf(calls, "enable")} = Enabled(state)
    /\ Cardinality(CallsOf(calls, "enable")) = Cardinality(Enabled(state))

\* lane 0 re-enabled, lanes 1..3 left disabled, in SINGLE mode
C2_Witness ==
  /\ Returned /\ raised = "none" /\ calls # <<>>
  /\ Enabled(state) = {0}
  /\ laneMode = SINGLE

(* C3: a reconfigureIfNeeded call whose resolved mode equals the active mode
   returns without any hardware call and leaves the recorded mode, the
   register and every member's enablement as they were. *)
C3_NoOpWhenModeUnchanged ==
  [][(/\ pc = "idle"
      /\ op' = "reconfigureIfNeeded"
      /\ getDesiredLaneMode(state) = Ok(laneMode))
     => (/\ pc' = "idle"
         /\ calls' = <<>>
         /\ raised' = "none"
         /\ UNCHANGED <<laneMode, hwLanes, portEnabled>>)]_vars

\* a no-op call although the ports' enablement differs from the snapshot
C3_Witness ==
  /\ Returned /\ raised = "none" /\ calls = <<>>
  /\ \E l \in Lanes : portEnabled[l] = state[l].disabled

(* C4 as stated: the second of two reconfigureIfNeeded calls in a row with
   the same snapshot makes no hardware call. *)
C4_SecondCallNoOp ==
  (Returned /\ prev # NoCall) => calls = <<>>

\* the first call threw in a hardware step before its register write succeeded
FailedBeforeWrite(p) == p.raised = "Hardware" /\ Writes(p.calls) = 0

(* C4 amended: over two reconfigureIfNeeded calls in a row with the same
   snapshot the register is written successfully at most once, and the second
   call makes no hardware call unless the first call failed in a hardware
   step before its register write succeeded. *)
C4_SecondCallNoOpUnlessEarlyFailure ==
  (op = "reconfigureIfNeeded" /\ prev # NoCall) =>
    /\ Writes(prev.calls) + Writes(calls) <= 1
    /\ ~FailedBeforeWrite(prev) => (calls = <<>> /\ pc = "idle")

\* the second call after a call that reconfigured the group
C4_Witness ==
  /\ Returned /\ prev # NoCall
  /\ prev.raised = "none" /\ Writes(prev.calls) = 1
  /\ calls = <<>>

(* C5: a reconfigureIfNeeded call whose resolution raises propagates that
   error, makes no hardware call and leaves the recorded mode, the register
   and every member's enablement as they were. *)
C5_ResolutionErrorNoMutation ==
  [][(/\ pc = "idle"
      /\ op' = "reconfigureIfNeeded"
      /\ getDesiredLaneMode(state).err # "none")
     => (/\ raised' = getDesiredLaneMode(state).err
         /\ raised' \in ResolutionErrors
         /\ pc' = "idle"
         /\ calls' = <<>>
         /\ UNCHANGED <<laneMode, hwLanes, portEnabled>>)]_vars

\* a lane-capacity error left reconfigureIfNeeded while every port was enabled
C5_Witness ==
  /\ Returned /\ raised = "LaneCapacity"
  /\ \A l \in Lanes : portEnabled[l]

(* C6: validConfiguration never lets an error escape; it returns false
   exactly when resolution of the snapshot raises and true otherwise. *)
C6_ValidNeverRaises ==
  op = "validConfiguration" =>
    /\ raised = "none"
    /\ ret \in {"true", "false"}
    /\ ret = "false" <=> getDesiredLaneMode(state).err # "none"

C6_Witness ==
  /\ op = "validConfiguration" /\ ret = "false"
  /\ getDesiredLaneMode(state).err = "SpeedDefault"

(* C7: the recorded lane mode always equals the mode the register holds, and
   it changes only in the step that writes the register successfully. *)
C7_RecordedModeMatchesRegister ==
  /\ [](RegisterHolds(laneMode))
  /\ [][laneMode' # laneMode =>
          /\ pc = "setActiveLanes"
          /\ calls' = Append(calls, Call("setActiveLanes", laneMode', TRUE))]_vars

\* an enable threw after the register had been written
C7_Witness ==
  /\ Returned /\ raised = "Hardware"
  /\ Writes(calls) = 1

(* C8: when reconfigureIfNeeded returns without error the register holds the
   mode resolved from the snapshot of the call. *)
C8_ConvergesToDesiredMode ==
  (Returned /\ raised = "none") =>
    /\ getDesiredLaneMode(state).err = "none"
    /\ RegisterHolds(getDesiredLaneMode(state).mode)

\* the group went from a more demanding mode back to QUAD
C8_Witness ==
  /\ Returned /\ raised = "none"
  /\ Writes(calls) = 1 /\ hwLanes = 1
  /\ Enabled(state) = Lanes

----------------------------------------------------------------------------
(* Lane placement *)

\* the mode the port at lane l of snapshot s requires
Needed(s, l) == neededLaneModeForSpeed(s[l].speed, maxLaneSpeed)

\* every member's speed is supported and every enabled port has a required mode
WellFormed(s) ==
  /\ \A l \in Lanes : supportsSpeed(l, s[l].speed)
  /\ \A l \in Enabled(s) : Needed(s, l).err = "none"

\* the most demanding mode an enabled port of s requires is m
MostDemanding(s, m) ==
  /\ \E l \in Enabled(s) : Needed(s, l) = Ok(m)
  /\ \A l \in Enabled(s) : Needed(s, l).mode >= m

(* C9 as stated: when the most demanding mode required by an enabled port is
   DUAL and an enabled port sits at lane 1 or 3, resolution raises the
   lane-placement error (and validConfiguration returns false). *)
C9_DualRejectsOddLanes ==
  (/\ op = "validConfiguration"
   /\ WellFormed(state)
   /\ MostDemanding(state, DUAL)
   /\ Enabled(state) \cap {1, 3} # {})
  => (/\ getDesiredLaneMode(state).err = "LanePlacement"
      /\ ret = "false")

\* some enabled port requires SINGLE and a port at a lane other than 0 is enabled
SingleWithOtherLane(s) ==
  /\ \E l \in Enabled(s) : Needed(s, l) = Ok(SINGLE)
  /\ Enabled(s) \ {0} # {}

(* C10 as stated: when some enabled port requires SINGLE and a port at a lane
   other than 0 is enabled, resolution raises the lane-placement error and
   validConfiguration returns false; SINGLE is returned only when lane 0 is
   the sole enabled port. *)
C10_SingleRaisesPlacement ==
  op = "validConfiguration" =>
    /\ SingleWithOtherLane(state) =>
         (getDesiredLaneMode(state).err = "LanePlacement" /\ ret = "false")
    /\ getDesiredLaneMode(state) = Ok(SINGLE) => Enabled(state) = {0}

(* C10 amended: in such a configuration resolution raises an error and
   validConfiguration returns false; the error is the lane-placement error
   whenever every member's speed is supported and every enabled port's speed
   is a specified speed needing at most four lanes (otherwise the
   unsupported-speed, unspecified-speed or lane-capacity error may be the one
   raised); SINGLE is returned only when lane 0 is the sole enabled port. *)
C10_SingleRaises ==
  op = "validConfiguration" =>
    /\ SingleWithOtherLane(state) =>
         /\ getDesiredLaneMode(state).err \in ResolutionErrors
         /\ ret = "false"
         /\ WellFormed(state) => getDesiredLaneMode(state).err = "LanePlacement"
    /\ getDesiredLaneMode(state) = Ok(SINGLE) => Enabled(state) = {0}

\* lane 1 alone enabled at a four-lane speed
C10_Witness ==
  /\ op = "validConfiguration" /\ ret = "false"
  /\ WellFormed(state)
  /\ Enabled(state) = {1}
  /\ Needed(state, 1) = Ok(SINGLE)

----------------------------------------------------------------------------
(* Legal enablement *)

\* the lane positions that may be enabled in a lane mode
LegalLanes(mode) ==
  CASE mode = SINGLE -> {0}
    [] mode = DUAL -> {0, 2}
    [] OTHER -> Lanes

(* C11 as stated: after a reconfiguration that completes without error the
   enabled members are legal for the mode just written: only lane 0 in
   SINGLE, only lanes 0 and 2 in DUAL, any subset in QUAD. *)
C11_EnabledSetLegal ==
  (Returned /\ raised = "none" /\ Writes(calls) = 1) =>
    {l \in Lanes : portEnabled[l]} \subseteq LegalLanes(laneMode)

----------------------------------------------------------------------------
(* The required-lane table *)

(* C12: with count = floor(speed / maxLaneSpeed), neededLaneModeForSpeed
   returns QUAD for count <= 1 (count 0 included), DUAL for count 2, SINGLE
   for count 3 or 4 and raises for count > 4; for the DEFAULT speed it raises
   whatever maxLaneSpeed is, and so does resolution of a group with an enabled
   port at DEFAULT. *)
C12_NeededLaneModeTable ==
  fnResult # NoResult =>
    LET sp == fnArgs.speed
        m == fnArgs.maxLaneSpeed
        r == fnResult.needed
    IN  /\ sp = DEFAULT =>
             /\ r.err = "SpeedDefault"
             /\ fnResult.resolved.err = "SpeedDefault"
        /\ (sp # DEFAULT /\ sp < 2 * m) => r = Ok(QUAD)
        /\ (2 * m <= sp /\ sp < 3 * m) => r = Ok(DUAL)
        /\ (3 * m <= sp /\ sp < 5 * m) => r = Ok(SINGLE)
        /\ 5 * m <= sp => r.err = "LaneCapacity"

\* a speed below the capacity of one lane (count 0) was evaluated
C12_Witness ==
  /\ fnResult # NoResult
  /\ fnArgs.speed # DEFAULT
  /\ fnArgs.speed < fnArgs.maxLaneSpeed
  /\ fnResult.needed = Ok(QUAD)

----------------------------------------------------------------------------
(* Disabled ports *)

(* C13 as stated: resolution of a snapshot in which all four members are
   disabled yields QUAD without raising, whatever speeds are configured. *)
C13_AllDisabledIsQuad ==
  (op = "validConfiguration" /\ Enabled(state) = {}) =>
    (getDesiredLaneMode(state) = Ok(QUAD) /\ ret = "true")

(* C13 amended: resolution of an all-disabled snapshot yields QUAD whenever
   every member's port supports its configured speed, whatever those speeds
   are, and raises the unsupported-speed error otherwise. *)
C13_AllDisabledIsQuadIfSupported ==
  (op = "validConfiguration" /\ Enabled(state) = {}) =>
    IF \A l \in Lanes : supportsSpeed(l, state[l].speed)
      THEN getDesiredLaneMode(state) = Ok(QUAD) /\ ret = "true"
      ELSE getDesiredLaneMode(state).err = "SpeedUnsupported" /\ ret = "false"

\* all disabled, with speeds that would raise on an enabled port
C13_Witness ==
  /\ op = "validConfiguration" /\ ret = "true"
  /\ Enabled(state) = {}
  /\ state[0].speed = HUNDREDG
  /\ state[1].speed = DEFAULT
  /\ state[3].speed = FORTYG

----------------------------------------------------------------------------
(* Monotonicity *)

\* snapshot s with the port at lane l enabled at speed sp
WithEnabled(s, l, sp) == [s EXCEPT ![l] = [speed |-> sp, disabled |-> FALSE]]

\* speed sp requires a mode more demanding than every enabled port of s
MoreDemanding(s, sp) ==
  /\ neededLaneModeForSpeed(sp, maxLaneSpeed).err = "none"
  /\ \A k \in Enabled(s) :
       /\ Needed(s, k).err = "none"
       /\ neededLaneModeForSpeed(sp, maxLaneSpeed).mode < Needed(s, k).mode

(* C14: from a configuration that resolves to R, enabling one more port
   whose required mode is more demanding than that of every enabled port
   makes resolution raise or yields R' with SINGLE <= R' <= R. *)
C14_ResolutionMonotonic ==
  (op = "validConfiguration" /\ ret = "true") =>
    \A l \in Lanes \ Enabled(state), sp \in AllSpeeds :
      MoreDemanding(state, sp) =>
        LET R == getDesiredLaneMode(state)
            Rn == getDesiredLaneMode(WithEnabled(state, l, sp))
        IN  \/ Rn.err # "none"
            \/ Rn.mode \in LaneModes /\ SINGLE <= Rn.mode /\ Rn.mode <= R.mode

\* a QUAD configuration that becomes DUAL by enabling lane 2 at a two-lane speed
C14_Witness ==
  /\ op = "validConfiguration" /\ ret = "true"
  /\ getDesiredLaneMode(state) = Ok(QUAD)
  /\ Enabled(state) = {0}
  /\ MoreDemanding(state, TWENTYG)
  /\ getDesiredLaneMode(WithEnabled(state, 2, TWENTYG)) = Ok(DUAL)

----------------------------------------------------------------------------
(* Construction *)

Constructed == op = "construct" /\ pc = "idle"

ConstructionFailed == op = "construct" /\ pc = "failed"

\* the member list is the four ports at offsets 0..3 of the controlling port
ExactMembers ==
  /\ Len(allPorts) = 4
  /\ \A i \in 0..3 : allPorts[i + 1] = controllingPort + i

(* C15: a constructed group records QUAD when the hardware reports 1 active
   lane, DUAL for 2 and SINGLE for 4; for every other reported lane count
   construction fails. *)
C15_ModeFromActiveLanes ==
  /\ Constructed =>
       \/ hwLanes = 1 /\ laneMode = QUAD
       \/ hwLanes = 2 /\ laneMode = DUAL
       \/ hwLanes = 4 /\ laneMode = SINGLE
  /\ (op = "construct" /\ hwLanes \notin {1, 2, 4}) => ConstructionFailed
  /\ (ConstructionFailed /\ ExactMembers) =>
       (raised = "Construction" /\ hwLanes \notin {1, 2, 4})

\* a well-formed member list refused for three active lanes
C15_Witness ==
  /\ ConstructionFailed /\ ExactMembers
  /\ hwLanes = 3
  /\ raised = "Construction"

(* C16 as stated: construction succeeds only if exactly four members are
   given and the member at index i has an identifier exactly i above the
   controlling port's (not i + 256, not a negative offset). *)
C16_ExactLaneOffsets ==
  Constructed => ExactMembers

----------------------------------------------------------------------------
(* Hardware failures *)

(* C17: a failed hardware step ends the reconfiguration: the error leaves
   reconfigureIfNeeded, the failed call is the last hardware call of the
   sequence (no retry, no later step); after a failed lane-count write no
   member is enabled, and after a failed disable the register is not
   written. *)
C17_HardwareErrorAborts ==
  /\ \A k \in 1..Len(calls) :
       ~calls[k].ok =>
         /\ k = Len(calls)
         /\ Returned /\ raised = "Hardware"
         /\ \A j \in 1..(k - 1) : calls[j].ok
         /\ calls[k].fn = "setActiveLanes" => \A l \in Lanes : ~portEnabled[l]
         /\ calls[k].fn = "disable" => CallsOf(calls, "setActiveLanes") = {}
  /\ raised = "Hardware" => (calls # <<>> /\ ~calls[Len(calls)].ok)
  /\ \A j, k \in 1..Len(calls) :
       (calls[j].fn = calls[k].fn /\ calls[j].arg = calls[k].arg) => j = k

\* the lane-count write threw while the snapshot enables ports
C17_Witness ==
  /\ Returned /\ raised = "Hardware"
  /\ calls[Len(calls)].fn = "setActiveLanes"
  /\ Enabled(state) # {}
  /\ \A l \in Lanes : ~portEnabled[l]

----------------------------------------------------------------------------
(* The resolved mode *)

\* the most demanding mode required by an enabled port, QUAD when none is
MinNeeded(s) ==
  IF Enabled(s) = {}
    THEN QUAD
    ELSE CHOOSE m \in LaneModes : MostDemanding(s, m)

\* the loop of calculateDesiredLaneMode over the lanes in the given order
RECURSIVE calculateInOrder(_, _, _, _, _)
calculateInOrder(ports, maxSpeed, order, k, desiredMode) ==
  IF k > Len(order)
    THEN Ok(desiredMode)
    ELSE LET lane == order[k] IN
      IF ports[lane].disabled
        THEN calculateInOrder(ports, maxSpeed, order, k + 1, desiredMode)
        ELSE LET neededMode == neededLaneModeForSpeed(ports[lane].speed, maxSpeed) IN
          IF neededMode.err # "none"
            THEN neededMode
            ELSE LET d == IF neededMode.mode < desiredMode
                            THEN neededMode.mode ELSE desiredMode IN
              IF (d = SINGLE /\ lane # 0) \/ (d = DUAL /\ lane \notin {0, 2})
                THEN Throw("LanePlacement")
                ELSE calculateInOrder(ports, maxSpeed, order, k + 1, d)

LaneOrders == {o \in [1..NumLanes -> Lanes] : \A i, j \in 1..NumLanes : o[i] = o[j] => i = j}

(* C18: a successful resolution returns the most demanding mode required by
   an enabled port, or QUAD when no port is enabled; evaluating the lanes in
   any other order either raises or returns the same mode. *)
C18_ResultIsMostDemanding ==
  (op = "validConfiguration" /\ ret = "true") =>
    LET r == getDesiredLaneMode(state) IN
      /\ r.err = "none"
      /\ r.mode = MinNeeded(state)
      /\ \A o \in LaneOrders :
           LET q == calculateInOrder(state, maxLaneSpeed, o, 1, QUAD) IN
             q.err = "none" => q.mode = r.mode

\* DUAL resolved although the last enabled port requires only QUAD
C18_Witness ==
  /\ op = "validConfiguration" /\ ret = "true"
  /\ Enabled(state) = {0, 2}
  /\ Needed(state, 0) = Ok(DUAL)
  /\ Needed(state, 2) = Ok(QUAD)
  /\ getDesiredLaneMode(state) = Ok(DUAL)

----------------------------------------------------------------------------
(* Unsupported speeds *)

SomeUnsupported(s) == \E l \in Lanes : ~supportsSpeed(l, s[l].speed)

(* C19: when any member, enabled or disabled, is configured with a speed its
   port does not support, resolution raises the unsupported-speed error, also
   when the snapshot would produce a lane-capacity or lane-placement error. *)
C19_UnsupportedSpeedFirst ==
  SomeUnsupported(state) =>
    /\ op = "validConfiguration" =>
         (ret = "false" /\ getDesiredLaneMode(state).err = "SpeedUnsupported")
    /\ Returned => (raised = "SpeedUnsupported" /\ calls = <<>>)

\* only a disabled port is unsupported, and the enabled ports alone would
\* raise the lane-capacity error
C19_Witness ==
  /\ Returned /\ raised = "SpeedUnsupported"
  /\ \A l \in Enabled(state) : supportsSpeed(l, state[l].speed)
  /\ \E l \in Lanes \ Enabled(state) : ~supportsSpeed(l, state[l].speed)
  /\ calculateDesiredLaneMode(state, maxLaneSpeed).err = "LaneCapacity"

----------------------------------------------------------------------------
(* Frame of validConfiguration *)

(* C20: a validConfiguration call, whether it returns true or false, leaves
   the recorded lane mode, the lane-count register and every member's
   enablement as they were, and makes no hardware call. *)
C20_ValidConfigurationPure ==
  [][(pc = "idle" /\ op' = "validConfiguration")
     => (/\ UNCHANGED <<laneMode, hwLanes, portEnabled>>
         /\ pc' = "idle"
         /\ calls' = <<>>)]_vars

\* true returned for a snapshot that resolves to another mode than the active
\* one and enables other ports than those enabled
C20_Witness ==
  /\ op = "validConfiguration" /\ ret = "true"
  /\ getDesiredLaneMode(state).mode # laneMode
  /\ laneMode # QUAD
  /\ \E l \in Lanes : portEnabled[l] = state[l].disabled

====
